---- MODULE Spec2Model ----
(***************************************************************************)
(* Model of main.py: the fetch -> normalize -> analyze -> notify pipeline  *)
(* of the NIFTY RSI bot (send, _normalize_columns, fetch_nifty_daily,      *)
(* analyze, run_once).                                                     *)
(*                                                                         *)
(* A DataFrame is a record                                                 *)
(*   kind    "none" (None), "frame" (DataFrame) or "series" (Series)       *)
(*   multi   TRUE when the columns are a MultiIndex                        *)
(*   cols    the column labels: strings when flat, tuples when MultiIndex  *)
(*   idxName the name of the row index ("" when it has none)               *)
(*   idx     the row labels, one cell per row                              *)
(*   rows    the rows, each a sequence of cells aligned with cols          *)
(* A cell is a pair <<tag, v>>: <<"num", n>> a number, <<"str", n>> a text *)
(* that parses to n, <<"bad", k>> a text that parses to nothing,           *)
(* <<"nan", 0>> NaN and <<"date", d>> a timestamp.                         *)
(***************************************************************************)
EXTENDS Integers, Sequences, FiniteSets, TLC

VARIABLES
    TELEGRAM_TOKEN,   \* TRUE when the bot token is configured (truthy)
    TELEGRAM_CHAT,    \* TRUE when the chat id is configured (truthy)
    raw,              \* what the provider returned / the input under study
    dlfail,           \* TRUE when yf.download itself raises
    df,               \* the current frame
    out,              \* analyze's result
    last_rsi,         \* analyze's local last_rsi, kept for inspection
    err,              \* the exception being handled ("" when none)
    pc,               \* position in run_once (or in the function under study)
    calls,            \* the send calls so far: [msg, how] in call order
    posts,            \* the messages handed to requests.post
    printed,          \* the messages send printed on the console
    status            \* "running", "ok" (exit 0) or "failed" (exception out of run_once)

vars == <<TELEGRAM_TOKEN, TELEGRAM_CHAT, raw, dlfail, df, out, last_rsi, err, pc,
          calls, posts, printed, status>>

-----------------------------------------------------------------------------
(* Frames and cells *)

Num(n) == <<"num", n>>
Str(n) == <<"str", n>>
Bad(k) == <<"bad", k>>
NaN == <<"nan", 0>>
Date(d) == <<"date", d>>

NoneDF ==
    [kind |-> "none", multi |-> FALSE, cols |-> <<>>, idxName |-> "",
     idx |-> <<>>, rows |-> <<>>]

Frame(multi, cols, idxName, idx, rows) ==
    [kind |-> "frame", multi |-> multi, cols |-> cols, idxName |-> idxName,
     idx |-> idx, rows |-> rows]

\* DataFrame.empty: some axis has length 0
Empty(d) == Len(d.rows) = 0 \/ Len(d.cols) = 0

Range(s) == {s[i] : i \in DOMAIN s}

\* position of the first occurrence of x in s, 0 when absent
IndexOf(s, x) ==
    IF x \in Range(s) THEN CHOOSE i \in DOMAIN s : s[i] = x /\ \A j \in 1..(i-1) : s[j] # x
    ELSE 0

\* the positions i >= the given one whose element s[i] is in keep, in order
RECURSIVE Positions(_, _, _)
Positions(s, keep, i) ==
    IF i > Len(s) THEN <<>>
    ELSE (IF s[i] \in keep THEN <<i>> ELSE <<>>) \o Positions(s, keep, i + 1)

\* the outcome of a call: a value or a raised exception
Ok(d) == [ok |-> TRUE, err |-> "", df |-> d]
Raise(e) == [ok |-> FALSE, err |-> e, df |-> NoneDF]

-----------------------------------------------------------------------------
(* _normalize_columns *)

\* "|".join(map(str, c))
RECURSIVE JoinBar(_)
JoinBar(c) ==
    IF Len(c) = 0 THEN ""
    ELSE IF Len(c) = 1 THEN c[1]
    ELSE c[1] \o "|" \o JoinBar(Tail(c))

\* lines 47-60: the MultiIndex branch
SelectClose(d) ==
    IF ~d.multi THEN Ok(d)
    ELSE
      LET level0 == {c[1] : c \in Range(d.cols)}
      IN IF "Close" \in level0
         THEN \* df[list(close_cols[0])] looks each element of the tuple up in
              \* level 0 (KeyError when one is missing) and gives a DataFrame,
              \* which has no to_frame
              LET first == d.cols[CHOOSE i \in DOMAIN d.cols :
                                    /\ d.cols[i][1] = "Close"
                                    /\ \A j \in 1..(i-1) : d.cols[j][1] # "Close"]
              IN IF \E k \in Range(first) : k \notin level0
                 THEN Raise("KeyError")
                 ELSE Raise("AttributeError")
         ELSE LET close_cols == {c \in Range(d.cols) : c[Len(c)] = "Close"}
              IN IF close_cols = {}
                 THEN Ok(d)      \* IndexError, swallowed
                 ELSE LET p == CHOOSE i \in DOMAIN d.cols :
                                 /\ d.cols[i] \in close_cols
                                 /\ \A j \in 1..(i-1) : d.cols[j] \notin close_cols
                      IN Ok([kind |-> "series", multi |-> FALSE, cols |-> <<>>,
                             idxName |-> d.idxName, idx |-> d.idx,
                             rows |-> [r \in DOMAIN d.rows |-> <<d.rows[r][p]>>]])

\* lines 62-67: flatten what is left of a MultiIndex
Flatten(d) ==
    IF d.kind = "frame" /\ d.multi
    THEN [d EXCEPT !.multi = FALSE,
                   !.cols = [i \in DOMAIN d.cols |-> JoinBar(d.cols[i])]]
    ELSE d

RenameCol(d, old, new) ==
    [d EXCEPT !.cols = [i \in DOMAIN d.cols |-> IF d.cols[i] = old THEN new ELSE d.cols[i]]]

Aliases == <<"Adj Close", "Close|^NSEI", "^NSEI">>

\* DeriveClose without the test of line 72: an alias is renamed to Close
\* even when a Close column is there
DeriveCloseAlways(d) ==
    IF Len(d.cols) = 1 THEN RenameCol(d, d.cols[1], "Close")
    ELSE LET hits == {i \in DOMAIN Aliases : Aliases[i] \in Range(d.cols)}
         IN IF hits = {} THEN d
            ELSE RenameCol(d, Aliases[CHOOSE i \in hits : \A j \in hits : i <= j], "Close")

\* lines 69-81: derive a 'Close' column when there is none
DeriveClose(d) ==
    IF "Close" \in Range(d.cols) THEN d
    ELSE IF Len(d.cols) = 1 THEN RenameCol(d, d.cols[1], "Close")
    ELSE LET hits == {i \in DOMAIN Aliases : Aliases[i] \in Range(d.cols)}
         IN IF hits = {} THEN d
            ELSE RenameCol(d, Aliases[CHOOSE i \in hits : \A j \in hits : i <= j], "Close")

\* df.reset_index().rename(columns={"index": "Date"})
ResetIndex(d) ==
    LET name == IF d.idxName # "" THEN d.idxName
                ELSE IF "index" \in Range(d.cols) THEN "level_0" ELSE "index"
    IN IF name \in Range(d.cols) THEN Raise("ValueError")
       ELSE Ok(RenameCol(
                 [d EXCEPT !.cols = <<name>> \o d.cols,
                           !.rows = [r \in DOMAIN d.rows |-> <<d.idx[r]>> \o d.rows[r]],
                           !.idx = [r \in DOMAIN d.rows |-> Num(r - 1)],
                           !.idxName = ""],
                 "index", "Date"))

\* pd.to_numeric(., errors="coerce") on one cell
ToNumeric(c) ==
    IF c[1] = "num" THEN c
    ELSE IF c[1] = "str" THEN Num(c[2])
    ELSE NaN

\* lines 92-93: coerce Close, then drop the rows whose Close is NaN
CoerceAndDrop(d) ==
    LET p == IndexOf(d.cols, "Close")
        conv == [r \in DOMAIN d.rows |-> [d.rows[r] EXCEPT ![p] = ToNumeric(d.rows[r][p])]]
        keep == Positions(conv, {row \in Range(conv) : row[p] # NaN}, 1)
    IN [d EXCEPT !.rows = [k \in DOMAIN keep |-> conv[keep[k]]],
                 !.idx = [k \in DOMAIN keep |-> d.idx[keep[k]]]]

\* Cleanup without the test of line 89: the index is always reset
CleanupAlwaysReset(d) ==
    LET r == ResetIndex(d)
    IN IF r.ok THEN Ok(CoerceAndDrop(r.df)) ELSE r

\* lines 87-94
Cleanup(d) ==
    IF "Date" \in Range(d.cols) THEN Ok(CoerceAndDrop(d))
    ELSE LET r == ResetIndex(d)
         IN IF r.ok THEN Ok(CoerceAndDrop(r.df)) ELSE r

\* _normalize_columns without the df.empty test of line 44
NormalizeColumnsNoGuard(d) ==
    IF d.kind = "none" THEN Raise("NoFrame")
    ELSE LET s == SelectClose(d)
         IN IF ~s.ok THEN s
            ELSE LET f == Flatten(s.df)
                 IN IF f.kind = "series" THEN Raise("AttributeError")
                    ELSE LET g == DeriveClose(f)
                         IN IF "Close" \notin Range(g.cols) THEN Raise("CloseMissing")
                            ELSE Cleanup(g)

\* lines 39-94
NormalizeColumns(d) ==
    IF d.kind = "none" \/ Empty(d) THEN Raise("NoFrame")
    ELSE LET s == SelectClose(d)
         IN IF ~s.ok THEN s
            ELSE LET f == Flatten(s.df)
                 IN IF f.kind = "series" THEN Raise("AttributeError")   \* df.columns of a Series
                    ELSE LET g == DeriveClose(f)
                         IN IF "Close" \notin Range(g.cols) THEN Raise("CloseMissing")
                            ELSE Cleanup(g)

-----------------------------------------------------------------------------
(* Naturals of any size: little-endian sequences of limbs in base          *)
(* LimbBase, without leading zero limbs (<<>> is zero).                    *)

LimbBits == 15
LimbBase == 2^LimbBits

RECURSIVE BigOfInt(_)
BigOfInt(n) == IF n = 0 THEN <<>> ELSE <<n % LimbBase>> \o BigOfInt(n \div LimbBase)

\* the machine integer of a natural below 2^31
RECURSIVE BigToInt(_)
BigToInt(a) == IF Len(a) = 0 THEN 0 ELSE a[1] + LimbBase * BigToInt(Tail(a))

RECURSIVE Trim(_)
Trim(a) ==
    IF Len(a) = 0 THEN a
    ELSE IF a[Len(a)] = 0 THEN Trim(SubSeq(a, 1, Len(a) - 1))
    ELSE a

RECURSIVE BigAddC(_, _, _)
BigAddC(a, b, carry) ==
    IF Len(a) = 0 /\ Len(b) = 0 THEN BigOfInt(carry)
    ELSE LET x == IF Len(a) = 0 THEN 0 ELSE a[1]
             y == IF Len(b) = 0 THEN 0 ELSE b[1]
             t == x + y + carry
         IN <<t % LimbBase>> \o BigAddC(IF Len(a) = 0 THEN a ELSE Tail(a),
                                        IF Len(b) = 0 THEN b ELSE Tail(b),
                                        t \div LimbBase)

BigAdd(a, b) == BigAddC(a, b, 0)

RECURSIVE BigSubB(_, _, _)
BigSubB(a, b, borrow) ==
    IF Len(a) = 0 THEN <<>>
    ELSE LET t == a[1] - (IF Len(b) = 0 THEN 0 ELSE b[1]) - borrow
         IN <<IF t < 0 THEN t + LimbBase ELSE t>>
            \o BigSubB(Tail(a), IF Len(b) = 0 THEN b ELSE Tail(b), IF t < 0 THEN 1 ELSE 0)

\* a - b for a >= b
BigSub(a, b) == Trim(BigSubB(a, b, 0))

\* a * k for a machine integer 0 <= k < LimbBase
RECURSIVE BigMulC(_, _, _)
BigMulC(a, k, carry) ==
    IF Len(a) = 0 THEN BigOfInt(carry)
    ELSE LET t == a[1] * k + carry
         IN <<t % LimbBase>> \o BigMulC(Tail(a), k, t \div LimbBase)

BigMulSmall(a, k) == IF k = 0 THEN <<>> ELSE BigMulC(a, k, 0)

\* a * LimbBase^q
LimbsUp(a, q) == IF Len(a) = 0 THEN a ELSE [i \in 1..q |-> 0] \o a

RECURSIVE BigMul(_, _)
BigMul(a, b) ==
    IF Len(b) = 0 THEN <<>>
    ELSE BigAdd(BigMulSmall(a, b[1]), LimbsUp(BigMul(a, Tail(b)), 1))

\* -1, 0 or 1 as a < b, a = b, a > b
RECURSIVE BigCmpAt(_, _, _)
BigCmpAt(a, b, i) ==
    IF i = 0 THEN 0
    ELSE IF a[i] < b[i] THEN -1
    ELSE IF a[i] > b[i] THEN 1
    ELSE BigCmpAt(a, b, i - 1)

BigCmp(a, b) ==
    IF Len(a) < Len(b) THEN -1
    ELSE IF Len(a) > Len(b) THEN 1
    ELSE BigCmpAt(a, b, Len(a))

\* a * 2^k
ShiftLeft(a, k) ==
    LimbsUp(BigMulSmall(a, 2^(k % LimbBits)), k \div LimbBits)

\* floor(a / 2^k)
ShiftRight(a, k) ==
    LET q == k \div LimbBits
        r == k % LimbBits
        x == SubSeq(a, q + 1, Len(a))
    IN Trim([i \in DOMAIN x |->
               (x[i] \div 2^r)
               + (IF i < Len(x) THEN (x[i + 1] % 2^r) * 2^(LimbBits - r) ELSE 0)])

RECURSIVE BitLenInt(_)
BitLenInt(n) == IF n = 0 THEN 0 ELSE 1 + BitLenInt(n \div 2)

BitLen(a) == IF Len(a) = 0 THEN 0 ELSE LimbBits * (Len(a) - 1) + BitLenInt(a[Len(a)])

\* the largest q in lo..hi with q * d <= n (lo satisfies it)
RECURSIVE QuotDigit(_, _, _, _)
QuotDigit(n, d, lo, hi) ==
    IF lo = hi THEN lo
    ELSE LET mid == (lo + hi + 1) \div 2
         IN IF BigCmp(BigMulSmall(d, mid), n) <= 0
            THEN QuotDigit(n, d, mid, hi)
            ELSE QuotDigit(n, d, lo, mid - 1)

\* long division of the limbs i..Len(a) of a by d: quotient q and remainder r
RECURSIVE DivLong(_, _, _)
DivLong(a, d, i) ==
    IF i > Len(a) THEN [q |-> <<>>, r |-> <<>>]
    ELSE LET prev == DivLong(a, d, i + 1)
             rem == Trim(<<a[i]>> \o prev.r)
             digit == QuotDigit(rem, d, 0, LimbBase - 1)
         IN [q |-> Trim(<<digit>> \o prev.q),
             r |-> BigSub(rem, BigMulSmall(d, digit))]

-----------------------------------------------------------------------------
(* IEEE 754 binary64, the float of Python, numpy and pandas: NaN, zero, or *)
(* m * 2^e with 2^52 <= m < 2^53. Every operation computes the exact       *)
(* result and rounds it to nearest, ties to even. All values here are       *)
(* non-negative and far from overflow and underflow.                       *)

Precision == 53

NaNF == [nan |-> TRUE, m |-> <<>>, e |-> 0]
Zero == [nan |-> FALSE, m |-> <<>>, e |-> 0]

\* -1, 0 or 1 as the k low bits of n, which q = floor(n / 2^k) drops, are
\* below, at or above one half
DropCmp(n, k, q) == BigCmp(BigSub(n, ShiftLeft(q, k)), ShiftLeft(<<1>>, k - 1))

\* q or q + 1, to nearest and ties to even; on a tie sticky breaks it upwards
Nearest(q, c, sticky) ==
    IF c > 0 \/ (c = 0 /\ (sticky \/ (Len(q) # 0 /\ q[1] % 2 = 1)))
    THEN BigAdd(q, <<1>>)
    ELSE q

\* q * 2^e where rounding up may have carried q to 2^Precision
Normal(q, e) ==
    IF BitLen(q) > Precision
    THEN [nan |-> FALSE, m |-> ShiftRight(q, 1), e |-> e + 1]
    ELSE [nan |-> FALSE, m |-> q, e |-> e]

\* n * 2^e with its k low bits rounded off, q being floor(n / 2^k)
RoundTo(n, e, sticky, k, q) == Normal(Nearest(q, DropCmp(n, k, q), sticky), e + k)

\* the double nearest to n * 2^e for n of len bits
DblOfLen(n, e, sticky, len) ==
    IF len <= Precision
    THEN [nan |-> FALSE, m |-> ShiftLeft(n, Precision - len), e |-> e - (Precision - len)]
    ELSE RoundTo(n, e, sticky, len - Precision, ShiftRight(n, len - Precision))

\* the double nearest to n * 2^e, or to a little more than that when sticky
Dbl(n, e, sticky) == IF Len(n) = 0 THEN Zero ELSE DblOfLen(n, e, sticky, BitLen(n))

\* float(n) for an integer n >= 0
DOfInt(n) == Dbl(BigOfInt(n), 0, FALSE)

One == DOfInt(1)
Hundred == DOfInt(100)

\* x * y
DMul(x, y) == Dbl(BigMul(x.m, y.m), x.e + y.e, FALSE)

Min(i, j) == IF i < j THEN i ELSE j

\* x + y
DAdd(x, y) ==
    IF Len(x.m) = 0 THEN y
    ELSE IF Len(y.m) = 0 THEN x
    ELSE LET e == Min(x.e, y.e)
         IN Dbl(BigAdd(ShiftLeft(x.m, x.e - e), ShiftLeft(y.m, y.e - e)), e, FALSE)

\* x - y for x >= y
DSub(x, y) ==
    IF Len(y.m) = 0 THEN x
    ELSE LET e == Min(x.e, y.e)
         IN Dbl(BigSub(ShiftLeft(x.m, x.e - e), ShiftLeft(y.m, y.e - e)), e, FALSE)

\* x / y for y > 0: a quotient of Precision + 2 bits or more, and whether
\* the division left a remainder
Quotient(d, e) == Dbl(d.q, e, Len(d.r) # 0)

DDiv(x, y) ==
    IF Len(x.m) = 0 THEN Zero
    ELSE IF y = One THEN x
    ELSE Quotient(DivLong(ShiftLeft(x.m, Precision + 2), y.m, 1),
                  x.e - y.e - (Precision + 2))

\* -1, 0 or 1 as x < k, x = k, x > k, for an integer k >= 0
DCmpInt(x, k) ==
    IF x.e >= 0 THEN BigCmp(ShiftLeft(x.m, x.e), BigOfInt(k))
    ELSE BigCmp(x.m, ShiftLeft(BigOfInt(k), 0 - x.e))

-----------------------------------------------------------------------------
(* ta.momentum.RSIIndicator(close, window=14).rsi() at the last row, and   *)
(* analyze                                                                 *)

Window == 14

\* up_direction / down_direction: diff.where(diff > 0, 0.0) and
\* -diff.where(diff < 0, 0.0); the first row's diff is NaN and becomes 0
UpDirection(close) ==
    [t \in DOMAIN close |->
        IF t > 1 /\ close[t] > close[t-1] THEN close[t] - close[t-1] ELSE 0]

DownDirection(close) ==
    [t \in DOMAIN close |->
        IF t > 1 /\ close[t] < close[t-1] THEN close[t-1] - close[t] ELSE 0]

\* ewm(alpha=1 / window): pandas turns alpha into a centre of mass and back
ComOf(a) == DDiv(DSub(One, a), a)
Com == ComOf(DDiv(One, DOfInt(Window)))
Alpha == DDiv(One, DAdd(One, Com))
OldWtFactor == DSub(One, Alpha)

\* (old_wt * weighted + new_wt * cur) / (old_wt + new_wt)
Weighted(old_wt, new_wt, weighted, cur) ==
    DDiv(DAdd(DMul(old_wt, weighted), DMul(new_wt, cur)), DAdd(old_wt, new_wt))

\* one row of the mean: skipped when weighted == cur, else weighted with
\* old_wt = old_wt_factor and new_wt = alpha
EwmStep(weighted, cur) ==
    IF weighted = cur THEN weighted ELSE Weighted(OldWtFactor, Alpha, weighted, cur)

\* x.ewm(alpha=1/Window, adjust=False).mean() at row t: the first value,
\* then one step per row
RECURSIVE Ewm(_, _)
Ewm(x, t) ==
    IF t = 1 THEN DOfInt(x[1])
    ELSE EwmStep(Ewm(x, t - 1), DOfInt(x[t]))

\* np.where(emadn == 0, 100, 100 - (100 / (1 + emaup / emadn)))
Rsi(emaup, emadn) ==
    IF emadn = Zero THEN Hundred
    ELSE DSub(Hundred, DDiv(Hundred, DAdd(One, DDiv(emaup, emadn))))

\* the last element of the rsi series: NaN below min_periods = Window rows
LastRsi(close) ==
    IF Len(close) < Window THEN NaNF
    ELSE Rsi(Ewm(UpDirection(close), Len(close)), Ewm(DownDirection(close), Len(close)))

\* x < k and x > k for a float x and an integer k; both FALSE on NaN
FloatLess(x, k) == ~x.nan /\ DCmpInt(x, k) < 0
FloatGreater(x, k) == ~x.nan /\ DCmpInt(x, k) > 0

\* the thresholds with <= and >= in place of < and >
SignalInclusive(x) ==
    IF ~FloatGreater(x, 30) /\ ~x.nan THEN "BUY"
    ELSE IF ~FloatLess(x, 70) /\ ~x.nan THEN "SELL"
    ELSE "HOLD"

\* lines 115-119
Signal(x) ==
    IF FloatLess(x, 30) THEN "BUY"
    ELSE IF FloatGreater(x, 70) THEN "SELL"
    ELSE "HOLD"

\* round(x, 2), in hundredths: the binary value of x rounded to two
\* decimals, ties to even; NaN stays NaN
Hundredths(n, k, q) == Num(BigToInt(Nearest(q, DropCmp(n, k, q), FALSE)))

Round2(x) ==
    IF x.nan THEN NaN
    ELSE IF x.e >= 0 THEN Num(BigToInt(BigMulSmall(ShiftLeft(x.m, x.e), 100)))
    ELSE Hundredths(BigMulSmall(x.m, 100), 0 - x.e, ShiftRight(BigMulSmall(x.m, 100), 0 - x.e))

NoOut == [date |-> <<"none", 0>>, close |-> NaN, rsi |-> NaN, signal |-> "none"]

\* the Close column of a frame, as numbers
CloseOf(d) ==
    LET p == IndexOf(d.cols, "Close")
    IN [r \in DOMAIN d.rows |-> d.rows[r][p][2]]

\* lines 115-126: the signal and the summary of the last row, lr being
\* the last RSI
Summary(d, last, lr) ==
    LET pd == IndexOf(d.cols, "Date")
    IN [ok |-> TRUE, err |-> "",
        out |-> [date |-> IF pd = 0 THEN <<"none", 0>> ELSE last[pd],
                 close |-> last[IndexOf(d.cols, "Close")],
                 rsi |-> Round2(lr),
                 signal |-> Signal(lr)],
        last_rsi |-> lr]

\* lines 106-126
Analyze(d) ==
    IF Empty(d) THEN [ok |-> FALSE, err |-> "EmptyAnalyze", out |-> NoOut, last_rsi |-> NaNF]
    ELSE Summary(d, d.rows[Len(d.rows)], LastRsi(CloseOf(d)))

-----------------------------------------------------------------------------
(* send *)

\* what requests.post / raise_for_status can do: a 2xx answer, a non-2xx
\* answer (HTTPError) or a network error (ConnectionError, Timeout)
HttpOutcomes == {"ok", "http_error", "net_error"}

\* send with raise_for_status and the post outside the try: a failed
\* delivery raises
SendUnguarded(msg, token, chat, r) ==
    IF ~token \/ ~chat
    THEN [printed |-> TRUE, posted |-> FALSE, how |-> "skipped", raised |-> FALSE]
    ELSE IF r = "ok"
    THEN [printed |-> TRUE, posted |-> TRUE, how |-> "ok", raised |-> FALSE]
    ELSE [printed |-> TRUE, posted |-> TRUE, how |-> "failed", raised |-> TRUE]

\* send catching requests.HTTPError only: a network error raises
SendLeaksNetError(msg, token, chat, r) ==
    IF ~token \/ ~chat
    THEN [printed |-> TRUE, posted |-> FALSE, how |-> "skipped", raised |-> FALSE]
    ELSE IF r = "ok"
    THEN [printed |-> TRUE, posted |-> TRUE, how |-> "ok", raised |-> FALSE]
    ELSE [printed |-> TRUE, posted |-> TRUE, how |-> "failed", raised |-> r = "net_error"]

\* send with "and" for "or" at line 24: it posts unless both are missing
SendNeedsBothMissing(msg, token, chat, r) ==
    IF ~token /\ ~chat
    THEN [printed |-> TRUE, posted |-> FALSE, how |-> "skipped", raised |-> FALSE]
    ELSE IF r = "ok"
    THEN [printed |-> TRUE, posted |-> TRUE, how |-> "ok", raised |-> FALSE]
    ELSE [printed |-> TRUE, posted |-> TRUE, how |-> "failed", raised |-> FALSE]

\* lines 21-36: send(msg) with the credentials as configured and r the
\* outcome of the HTTP exchange should it take place.
\*   printed  the message was printed on the console (line 23)
\*   posted   requests.post was called
\*   how      "skipped" (no credentials), "ok" or "failed"
\*   raised   an exception left send
Send(msg, token, chat, r) ==
    IF ~token \/ ~chat
    THEN [printed |-> TRUE, posted |-> FALSE, how |-> "skipped", raised |-> FALSE]
    ELSE IF r = "ok"
    THEN [printed |-> TRUE, posted |-> TRUE, how |-> "ok", raised |-> FALSE]
    ELSE [printed |-> TRUE, posted |-> TRUE, how |-> "failed", raised |-> FALSE]

SummaryMsg(o) == [kind |-> "summary", text |-> "", out |-> o]
ErrorMsg(e) == [kind |-> "error", text |-> e, out |-> NoOut]

\* the trace one send call leaves: the call, the HTTP post, the console line
Sending(msg, s) ==
    /\ calls' = Append(calls, [msg |-> msg, how |-> s.how])
    /\ posts' = IF s.posted THEN Append(posts, msg) ELSE posts
    /\ printed' = IF s.printed THEN Append(printed, msg) ELSE printed

-----------------------------------------------------------------------------
(* The inputs *)

MaxRows == 16        \* longest price series
MaxNormRows == 3     \* most rows of a table given to _normalize_columns
BasePrice == 1000    \* first close of a generated series

RampSteps == {-1, 0, 1}
SpikeSteps == {-294, -117, -98, -39, 39, 98, 117, 294}

\* n closes that move by a per bar up to row k and by b per bar after it
Ramp(n, k, a, b) ==
    [t \in 1..n |-> BasePrice + a * ((IF t < k THEN t ELSE k) - 1)
                              + b * (IF t > k THEN t - k ELSE 0)]

\* n flat closes but for a move of a at row i and of b at row i + 1
Spike(n, i, a, b) ==
    [t \in 1..n |-> BasePrice + (IF t >= i THEN a ELSE 0)
                              + (IF t >= i + 1 THEN b ELSE 0)]

SeriesSet ==
    {Ramp(n, k, a, b) : n \in 1..MaxRows, k \in 1..MaxRows, a \in RampSteps, b \in RampSteps}
    \cup {Spike(n, i, a, b) : n \in 1..MaxRows, i \in 2..MaxRows, a \in SpikeSteps, b \in SpikeSteps}

\* a canonical frame (Date, Close) holding the closes c
SeriesFrame(c) ==
    Frame(FALSE, <<"Date", "Close">>, "",
          [r \in DOMAIN c |-> Num(r - 1)],
          [r \in DOMAIN c |-> <<Date(r), Num(c[r])>>])

\* what yf.download gives when all goes well: flat columns, index named Date
ProviderFrame(c) ==
    Frame(FALSE, <<"Open", "Close">>, "Date",
          [r \in DOMAIN c |-> Date(r)],
          [r \in DOMAIN c |-> <<Num(7), Num(c[r])>>])

\* column layouts: the labels and the position of the column that carries
\* the prices
Lay(multi, cols, price) == [multi |-> multi, cols |-> cols, price |-> price]

Layouts ==
    { Lay(FALSE, <<"Close">>, 1),
      Lay(FALSE, <<"close">>, 1),
      Lay(FALSE, <<"^NSEI">>, 1),
      Lay(FALSE, <<"Open", "Close">>, 2),
      Lay(FALSE, <<"Open", "close">>, 2),
      Lay(FALSE, <<"CLOSE", "Open">>, 1),
      Lay(FALSE, <<"Date", "Close">>, 2),
      Lay(FALSE, <<"Close", "Date">>, 1),
      Lay(FALSE, <<"Date", "close">>, 2),
      Lay(FALSE, <<"Open", "^NSEI">>, 2),
      Lay(FALSE, <<"Open", "Adj Close">>, 2),
      Lay(FALSE, <<"Close|^NSEI", "Open|^NSEI">>, 1),
      Lay(FALSE, <<"Close|TCS", "Open|TCS">>, 1),
      Lay(FALSE, <<"Close|^NSEI", "Close">>, 2),
      Lay(FALSE, <<"Open", "High">>, 2),
      Lay(FALSE, <<"Datetime", "Close">>, 2),
      Lay(FALSE, <<"close", "Close">>, 1),
      Lay(FALSE, <<"close", "Adj Close">>, 2),
      Lay(FALSE, <<"CLOSE", "^NSEI">>, 1),
      Lay(FALSE, <<"close", "Close|^NSEI">>, 2),
      Lay(FALSE, <<"close", "^NSEI", "Adj Close">>, 3),
      Lay(TRUE, << <<"Close", "^NSEI">>, <<"Open", "^NSEI">> >>, 1),
      Lay(TRUE, << <<"Open", "^NSEI">>, <<"Close", "^NSEI">> >>, 2),
      Lay(TRUE, << <<"Close", "TCS">>, <<"Open", "TCS">> >>, 1),
      Lay(TRUE, << <<"Close", "Open">>, <<"Open", "Open">> >>, 1),
      Lay(TRUE, << <<"^NSEI", "Open">>, <<"^NSEI", "Close">> >>, 2),
      Lay(TRUE, << <<"Open", "^NSEI">>, <<"High", "^NSEI">> >>, 2),
      Lay(TRUE, << <<"Open", "^NSEI">> >>, 1) }

IndexNames == {"", "Date", "Datetime"}

PriceCells == {Num(100), Num(101), Str(102), Bad(1), NaN}

\* the sequences over S of length at most n
RECURSIVE SeqsUpTo(_, _)
SeqsUpTo(S, n) ==
    IF n = 0 THEN {<<>>}
    ELSE LET shorter == SeqsUpTo(S, n - 1)
         IN shorter \cup {Append(q, x) : q \in {z \in shorter : Len(z) = n - 1}, x \in S}

\* the table with layout l, index name nm and the price cells v
Table(l, nm, v) ==
    Frame(l.multi, l.cols, nm,
          [r \in DOMAIN v |-> Date(r)],
          [r \in DOMAIN v |->
             [j \in DOMAIN l.cols |->
                IF j = l.price THEN v[r]
                ELSE IF ~l.multi /\ l.cols[j] \in {"Date", "Datetime"} THEN Date(r)
                ELSE Num(7)]])

NormTables ==
    {NoneDF} \cup
    {Table(l, nm, v) : l \in Layouts, nm \in IndexNames, v \in SeqsUpTo(PriceCells, MaxNormRows)}

RunSeries ==
    {Ramp(n, n, a, a) : n \in {1, 13, 14, 15, MaxRows}, a \in RampSteps}
    \cup {Spike(MaxRows, MaxRows - 1, a, b) : a \in SpikeSteps, b \in SpikeSteps}

RunTables ==
    {NoneDF} \cup {ProviderFrame(c) : c \in RunSeries}
    \cup {Table(l, "Date", v) : l \in Layouts, v \in SeqsUpTo({Num(100), Bad(1)}, 1)}

-----------------------------------------------------------------------------
(* The state before anything ran *)

Blank ==
    /\ out = NoOut
    /\ last_rsi = NaNF
    /\ err = ""
    /\ calls = <<>>
    /\ posts = <<>>
    /\ printed = <<>>
    /\ status = "running"

-----------------------------------------------------------------------------
(* run_once, one action per stage *)

Init ==
    /\ TELEGRAM_TOKEN \in BOOLEAN
    /\ TELEGRAM_CHAT \in BOOLEAN
    /\ raw \in RunTables
    /\ dlfail \in BOOLEAN
    /\ df = NoneDF
    /\ pc = "fetch"
    /\ Blank

\* lines 97-103: fetch_nifty_daily, called at line 131
FetchNiftyDaily(d, fails) ==
    IF fails THEN Raise("DownloadError")
    ELSE IF d.kind = "none" \/ Empty(d) THEN Raise("NoData")
    ELSE NormalizeColumns(d)

\* line 131
Fetch ==
    /\ pc = "fetch"
    /\ LET f == FetchNiftyDaily(raw, dlfail)
       IN /\ df' = f.df
          /\ err' = f.err
          /\ pc' = IF f.ok THEN "analyze" ELSE "except"
    /\ UNCHANGED <<TELEGRAM_TOKEN, TELEGRAM_CHAT, raw, dlfail, out, last_rsi,
                   calls, posts, printed, status>>

\* line 132
AnalyzeStage ==
    /\ pc = "analyze"
    /\ \E a \in {Analyze(df)} :
          /\ out' = a.out
          /\ last_rsi' = a.last_rsi
          /\ err' = a.err
          /\ pc' = IF a.ok THEN "notify" ELSE "except"
    /\ UNCHANGED <<TELEGRAM_TOKEN, TELEGRAM_CHAT, raw, dlfail, df,
                   calls, posts, printed, status>>

\* lines 133-146: build the summary, send it, report on the Zerodha keys;
\* an exception out of send would be caught at line 148
Notify ==
    /\ pc = "notify"
    /\ \E r \in HttpOutcomes :
         LET msg == SummaryMsg(out)
             s == Send(msg, TELEGRAM_TOKEN, TELEGRAM_CHAT, r)
         IN /\ Sending(msg, s)
            /\ IF s.raised
               THEN /\ err' = "SendError"
                    /\ pc' = "except"
                    /\ status' = status
               ELSE /\ err' = err
                    /\ pc' = "done"
                    /\ status' = "ok"
    /\ UNCHANGED <<TELEGRAM_TOKEN, TELEGRAM_CHAT, raw, dlfail, df, out, last_rsi>>

\* the handler without its send call: the error is re-raised unreported
ExceptSilent ==
    /\ pc = "except"
    /\ pc' = "reraise"
    /\ UNCHANGED <<TELEGRAM_TOKEN, TELEGRAM_CHAT, raw, dlfail, df, out, last_rsi, err,
                   calls, posts, printed, status>>

\* lines 148-151: report the error; an exception out of send would leave
\* run_once from here
Except ==
    /\ pc = "except"
    /\ \E r \in HttpOutcomes :
         LET msg == ErrorMsg(err)
             s == Send(msg, TELEGRAM_TOKEN, TELEGRAM_CHAT, r)
         IN /\ Sending(msg, s)
            /\ IF s.raised
               THEN /\ err' = "SendError"
                    /\ pc' = "done"
                    /\ status' = "failed"
               ELSE /\ err' = err
                    /\ pc' = "reraise"
                    /\ status' = status
    /\ UNCHANGED <<TELEGRAM_TOKEN, TELEGRAM_CHAT, raw, dlfail, df, out, last_rsi>>

\* line 153
Reraise ==
    /\ pc = "reraise"
    /\ pc' = "done"
    /\ status' = "failed"
    /\ UNCHANGED <<TELEGRAM_TOKEN, TELEGRAM_CHAT, raw, dlfail, df, out, last_rsi, err,
                   calls, posts, printed>>

Next == Fetch \/ AnalyzeStage \/ Notify \/ Except \/ Reraise

Spec == Init /\ [][Next]_vars

-----------------------------------------------------------------------------
(* _normalize_columns on its own: applied to a table, then to its result *)

InitNorm ==
    /\ TELEGRAM_TOKEN = FALSE
    /\ TELEGRAM_CHAT = FALSE
    /\ raw \in NormTables
    /\ dlfail = FALSE
    /\ df = NoneDF
    /\ pc = "norm0"
    /\ Blank

NormApply ==
    /\ pc = "norm0"
    /\ LET r == NormalizeColumns(raw)
       IN /\ df' = r.df
          /\ err' = r.err
    /\ pc' = "norm1"
    /\ UNCHANGED <<TELEGRAM_TOKEN, TELEGRAM_CHAT, raw, dlfail, out, last_rsi,
                   calls, posts, printed, status>>

\* the result becomes the input of a second application
NormReapply ==
    /\ pc = "norm1"
    /\ err = ""
    /\ LET r == NormalizeColumns(df)
       IN /\ raw' = df
          /\ df' = r.df
          /\ err' = r.err
    /\ pc' = "norm2"
    /\ UNCHANGED <<TELEGRAM_TOKEN, TELEGRAM_CHAT, dlfail, out, last_rsi,
                   calls, posts, printed, status>>

NextNorm == NormApply \/ NormReapply

SpecNorm == InitNorm /\ [][NextNorm]_vars

-----------------------------------------------------------------------------
(* analyze on its own *)

InitAnalyze ==
    /\ TELEGRAM_TOKEN = FALSE
    /\ TELEGRAM_CHAT = FALSE
    /\ raw = NoneDF
    /\ dlfail = FALSE
    /\ df \in {SeriesFrame(c) : c \in SeriesSet \cup {<<>>}}
    /\ pc = "an0"
    /\ Blank

AnalyzeApply ==
    /\ pc = "an0"
    /\ \E a \in {Analyze(df)} :
          /\ out' = a.out
          /\ last_rsi' = a.last_rsi
          /\ err' = a.err
    /\ pc' = "an1"
    /\ UNCHANGED <<TELEGRAM_TOKEN, TELEGRAM_CHAT, raw, dlfail, df,
                   calls, posts, printed, status>>

NextAnalyze == AnalyzeApply

SpecAnalyze == InitAnalyze /\ [][NextAnalyze]_vars

-----------------------------------------------------------------------------
(* Properties *)

Done == pc = "done"

\* the numeric closes of column j of d, NaN rows left out, in row order
RECURSIVE NumericCells(_, _, _)
NumericCells(d, j, r) ==
    IF r > Len(d.rows) THEN <<>>
    ELSE (IF ToNumeric(d.rows[r][j]) = NaN THEN <<>> ELSE <<ToNumeric(d.rows[r][j])>>)
         \o NumericCells(d, j, r + 1)

\* the Close column of a normalized frame, as cells
CloseCells(d) ==
    [r \in DOMAIN d.rows |-> d.rows[r][IndexOf(d.cols, "Close")]]

\* str.lower() on the column names in use
Lower(s) ==
    CASE s = "Close" -> "close"
      [] s = "CLOSE" -> "close"
      [] s = "Open" -> "open"
      [] s = "High" -> "high"
      [] s = "Date" -> "date"
      [] s = "Datetime" -> "datetime"
      [] s = "Adj Close" -> "adj close"
      [] s = "Close|^NSEI" -> "close|^nsei"
      [] s = "Open|^NSEI" -> "open|^nsei"
      [] s = "Close|TCS" -> "close|tcs"
      [] s = "Open|TCS" -> "open|tcs"
      [] OTHER -> s

\* C1: in run_once a failure of fetch, normalize or analyze is first handed
\* to send as the error text and only then re-raised. While the error waits
\* in the handler nothing has been sent and the run has not failed; the
\* handler's step is the one send call, carrying that error, and leaves the
\* run still to fail; the step after it fails the run with the same error.
\* So a failed run has made exactly one send call, with the error it ends
\* with, whether that call delivered, failed or was skipped.
C1_ErrorSentThenReraised ==
    /\ [](pc = "except" => (status = "running" /\ calls = <<>> /\ err # ""))
    /\ [][pc = "except" =>
            /\ pc' = "reraise"
            /\ status' = "running"
            /\ err' = err
            /\ Len(calls') = 1
            /\ calls'[1].msg = ErrorMsg(err)
            /\ calls'[1].how \in {"ok", "failed", "skipped"}]_vars
    /\ [][pc = "reraise" =>
            (status' = "failed" /\ err' = err /\ calls' = calls /\ pc' = "done")]_vars
    /\ [](status = "failed" =>
            (Done /\ err # "" /\ Len(calls) = 1 /\ calls[1].msg = ErrorMsg(err)))

C1_Witness ==
    /\ status = "failed"
    /\ err = "CloseMissing"
    /\ Len(calls) = 1
    /\ calls[1].how = "failed"

\* C2: no failure of the delivery leaves send: no run ever handles a send
\* error, and once the summary has been handed to send the run is over and
\* successful, whether the delivery worked, failed or was skipped.
C2_SendNeverAborts ==
    /\ err # "SendError"
    /\ (Len(calls) > 0 /\ calls[1].msg.kind = "summary") =>
          (Done /\ status = "ok" /\ err = "" /\ Len(calls) = 1)
    /\ (Len(calls) > 0 /\ calls[1].msg.kind = "error") =>
          (pc \in {"reraise", "done"} /\ calls[1].msg.text = err)

C2_Witness ==
    /\ status = "ok"
    /\ Len(calls) = 1
    /\ calls[1].msg.kind = "summary"
    /\ calls[1].how = "failed"
    /\ out.signal = "BUY"

\* C3: without the bot token or without the chat id send makes no HTTP POST:
\* every call is skipped, its message is printed locally and the run goes on;
\* a POST is only ever made with both configured.
C3_NoPostWithoutCredentials ==
    /\ (~TELEGRAM_TOKEN \/ ~TELEGRAM_CHAT) =>
          /\ posts = <<>>
          /\ \A i \in DOMAIN calls : calls[i].how = "skipped"
          /\ printed = [i \in DOMAIN calls |-> calls[i].msg]
          /\ err # "SendError"
    /\ posts # <<>> => (TELEGRAM_TOKEN /\ TELEGRAM_CHAT)

C3_Witness ==
    /\ TELEGRAM_TOKEN
    /\ ~TELEGRAM_CHAT
    /\ Done
    /\ Len(calls) = 1
    /\ printed = <<calls[1].msg>>
    /\ posts = <<>>

\* C4: on a series of at least 15 rows analyze succeeds, the RSI of the last
\* row (the float that ta computes) and the RSI it returns lie in [0, 100],
\* and the signal is BUY when that float is below 30, SELL when it is above
\* 70 and HOLD otherwise, 30 and 70 included.
C4_SignalMatchesThresholds ==
    (pc = "an1" /\ Len(df.rows) >= 15) =>
        /\ err = ""
        /\ ~last_rsi.nan
        /\ DCmpInt(last_rsi, 100) <= 0
        /\ out.rsi[1] = "num" /\ out.rsi[2] \in 0..10000
        /\ out.signal \in {"BUY", "SELL", "HOLD"}
        /\ (DCmpInt(last_rsi, 30) < 0) <=> (out.signal = "BUY")
        /\ (DCmpInt(last_rsi, 70) > 0) <=> (out.signal = "SELL")

C4_Witness ==
    /\ pc = "an1"
    /\ Len(df.rows) >= 15
    /\ out.rsi = Num(3000)
    /\ out.signal = "HOLD"
    /\ DCmpInt(last_rsi, 30) = 0

\* C5 (as claimed): on a series of 1 to 14 rows analyze fails and gives no
\* result, and the run sends no summary.
C5_ShortSeriesFails ==
    (pc \notin {"fetch", "analyze"} /\ df.kind = "frame" /\ Len(df.rows) \in 1..14) =>
        /\ err # ""
        /\ out = NoOut
        /\ \A i \in DOMAIN calls : calls[i].msg.kind # "summary"

\* C6 (as claimed): _normalize_columns never returns a series without rows.
C6_NeverReturnsEmpty ==
    pc \in {"norm1", "norm2"} => ~(err = "" /\ Len(df.rows) = 0)

\* every close of column j of d is text that parses to nothing, or NaN
AllNonNumeric(d, j) == \A r \in DOMAIN d.rows : ToNumeric(d.rows[r][j]) = NaN

\* C6 (amended): _normalize_columns fails on a table without rows; on a
\* table with rows and a Close column whose values are all non-numeric it
\* does not fail but returns a series without rows.
C6_EmptyInFailsAllDroppedReturnsEmpty ==
    pc \in {"norm1", "norm2"} =>
        /\ (raw.kind = "frame" /\ Len(raw.rows) = 0) => err = "NoFrame"
        /\ ( /\ raw.kind = "frame" /\ ~raw.multi /\ Len(raw.rows) > 0
             /\ "Close" \in Range(raw.cols)
             /\ ("Date" \in Range(raw.cols) \/ raw.idxName \notin Range(raw.cols))
             /\ AllNonNumeric(raw, IndexOf(raw.cols, "Close")) )
           => (err = "" /\ df.kind = "frame" /\ df.rows = <<>> /\ "Close" \in Range(df.cols))

C6_Witness ==
    /\ pc = "norm1"
    /\ Len(raw.rows) >= 2
    /\ raw.cols = <<"Open", "Close">>
    /\ err = ""
    /\ df.rows = <<>>

\* C7 (as claimed): a column named "Close" in any letter case, in a flat
\* table with rows, is used as the closing price and the missing-column error
\* does not occur.
C7_CloseAnyCase ==
    (pc = "norm1" /\ raw.kind = "frame" /\ ~raw.multi /\ Len(raw.rows) > 0) =>
        \A j \in DOMAIN raw.cols :
            Lower(raw.cols[j]) = "close" =>
                /\ err # "CloseMissing"
                /\ err = "" => CloseCells(df) = NumericCells(raw, j, 1)

\* the position of the first of "Adj Close", "Close|^NSEI", "^NSEI" among
\* the column names, 0 when none is there
AliasColumn(cols) ==
    IF "Adj Close" \in Range(cols) THEN IndexOf(cols, "Adj Close")
    ELSE IF "Close|^NSEI" \in Range(cols) THEN IndexOf(cols, "Close|^NSEI")
    ELSE IF "^NSEI" \in Range(cols) THEN IndexOf(cols, "^NSEI")
    ELSE 0

\* C7 (amended): in a flat table with rows, a column named exactly "Close"
\* is used as the closing price and the missing-column error does not occur.
\* A column named "close" or "CLOSE" is used only when it is the only
\* column; next to other columns, none of them named "Close", the closing
\* price is the first of "Adj Close", "Close|^NSEI", "^NSEI" that is there,
\* and the missing-column error occurs when none is.
C7_CloseExactCase ==
    (pc = "norm1" /\ raw.kind = "frame" /\ ~raw.multi /\ Len(raw.rows) > 0) =>
        \A j \in DOMAIN raw.cols :
            /\ raw.cols[j] = "Close" =>
                /\ err # "CloseMissing"
                /\ err = "" => CloseCells(df) = NumericCells(raw, j, 1)
            /\ (raw.cols[j] \in {"close", "CLOSE"} /\ Len(raw.cols) = 1) =>
                /\ err # "CloseMissing"
                /\ err = "" => CloseCells(df) = NumericCells(raw, j, 1)
            /\ ( /\ raw.cols[j] \in {"close", "CLOSE"}
                 /\ Len(raw.cols) > 1
                 /\ "Close" \notin Range(raw.cols) ) =>
                IF AliasColumn(raw.cols) = 0 THEN err = "CloseMissing"
                ELSE /\ err # "CloseMissing"
                     /\ err = "" =>
                            CloseCells(df) = NumericCells(raw, AliasColumn(raw.cols), 1)

C7_Witness ==
    /\ pc = "norm1"
    /\ raw.cols = <<"Close|^NSEI", "Close">>
    /\ err = ""
    /\ Len(df.rows) >= 2
    /\ CloseCells(df) = NumericCells(raw, 2, 1)

\* C8 (as claimed): a table with rows whose columns are (field, ticker)
\* pairs, one of them with the field Close, is normalized without error into
\* the closes of that column.
C8_FieldTickerClose ==
    (pc = "norm1" /\ raw.kind = "frame" /\ raw.multi /\ Len(raw.rows) > 0) =>
        \A j \in DOMAIN raw.cols :
            raw.cols[j][1] = "Close" =>
                /\ err = ""
                /\ CloseCells(df) = NumericCells(raw, j, 1)

\* a two-column frame of a Date column and a Close column of numbers
Canonical(d) ==
    /\ d.kind = "frame"
    /\ ~d.multi
    /\ Len(d.cols) = 2
    /\ Range(d.cols) = {"Date", "Close"}
    /\ \A r \in DOMAIN d.rows : d.rows[r][IndexOf(d.cols, "Close")][1] = "num"

\* C9 (as claimed): _normalize_columns returns any canonical series, its own
\* output included, unchanged.
C9_IdempotentOnCanonical ==
    (pc \in {"norm1", "norm2"} /\ Canonical(raw)) => (err = "" /\ df = raw)

\* C9 (amended): _normalize_columns returns any canonical series that has at
\* least one row, its own output included, unchanged.
C9_IdempotentOnNonEmptyCanonical ==
    (pc \in {"norm1", "norm2"} /\ Canonical(raw) /\ Len(raw.rows) > 0) =>
        (err = "" /\ df = raw)

C9_Witness ==
    /\ pc = "norm2"
    /\ Canonical(raw)
    /\ Len(raw.rows) >= 2
    /\ raw.idx # [r \in DOMAIN raw.rows |-> Num(r - 1)]
    /\ df = raw

\* C10: a run makes at most one send call, and a finished run exactly one:
\* the summary of the analysis when the run succeeded, the error text when it
\* failed; a summary is never followed by an error message.
C10_ExactlyOneSend ==
    /\ Len(calls) <= 1
    /\ Done =>
         /\ Len(calls) = 1
         /\ status \in {"ok", "failed"}
         /\ status = "ok" => (err = "" /\ calls[1].msg = SummaryMsg(out))
         /\ status = "failed" => (err # "" /\ calls[1].msg = ErrorMsg(err))

C10_Witness ==
    /\ Done
    /\ status = "ok"
    /\ calls = <<[msg |-> SummaryMsg(out), how |-> "failed"]>>
    /\ out.signal = "SELL"
    /\ posts = <<SummaryMsg(out)>>

====
